---- MODULE Spec2Model ----
\* Tamper-evident audit core of audit-trail-ai: canonical hashing, the Merkle
\* engine, the anchor worker, the tombstone manager, the integrity verifier and
\* the ingest pipeline, modelled over one shared record store.
EXTENDS Integers, Sequences, FiniteSets, TLC

VARIABLES
    settings,            \* configuration and the BlockchainService.w3 handle
    audit_logs,          \* table audit_logs with the 1:1 interaction and context rows, in insertion order
    sequence_value,      \* last value handed out by the store's sequence for sequence_number
    commit_order,        \* sequence_numbers of the ingests in the order they committed
    merkle_nodes,        \* table merkle_nodes
    merkle_roots,        \* table merkle_roots (index = id)
    blockchain_anchors,  \* table blockchain_anchors (index = id)
    anchor_tasks,        \* running anchor_to_blockchain calls
    ledger,              \* the external chain: head block and the mined transactions
    tombstone_records,   \* table tombstone_records (index = id)
    deletion_tasks,      \* running request_deletion calls
    now,                 \* wall clock (datetime.utcnow / func.now)
    proof_result,        \* outcome of the last generate_merkle_proof + verify_merkle_proof
    tombstone_result,    \* outcome of the last verify_tombstone
    integrity_report,    \* outcome of the last get_integrity_report
    lineage              \* the running or last get_decision_lineage call

vars == <<settings, audit_logs, sequence_value, commit_order,
          merkle_nodes, merkle_roots, blockchain_anchors, anchor_tasks, ledger,
          tombstone_records, deletion_tasks, now, proof_result,
          tombstone_result, integrity_report, lineage>>

ingestVars == <<audit_logs, sequence_value, commit_order>>
merkleVars == <<merkle_nodes, merkle_roots>>
anchorVars == <<blockchain_anchors, anchor_tasks, ledger>>
gdprVars == <<tombstone_records, deletion_tasks>>
resultVars == <<proof_result, tombstone_result, integrity_report, lineage>>

----------------------------------------------------------------------------
\* Bounds of the model.

MaxLeaves == 3        \* distinct plain leaf hashes offered to the Merkle engine
MaxTrees == 2         \* Merkle builds over caller-supplied lists or stored records
MaxLogs == 3          \* captured decision records
MaxAnchors == 1       \* anchor_to_blockchain calls
MaxPolls == 2         \* receipt polls that fit in the bounded wait
MaxBlock == 14        \* highest chain head
MaxClock == 3         \* latest clock reading
MaxDeletions == 1     \* request_deletion calls
MaxOverlap == 2       \* request_deletion calls running at the same time

----------------------------------------------------------------------------
\* Values.  A digest is a finite sequence of integers; None is the empty one.
\* Plaintext atoms are integers >= 10; the integers below 10 mark what kind of
\* value was digested (1 string, 2..3 dictionary, 4..6 Merkle pair).

None == <<>>

----------------------------------------------------------------------------
\* 4.A Canonical hasher.  SHA3-256 is taken collision-free: every hash
\* operator is injective in the value it digests.

\* HashService.hash_string: digest of one string atom.
hash_string(s) == <<1, s>>

\* HashService.merkle_hash: hash_string(left + right).  Real digests have a
\* fixed width, so the concatenation determines both halves; the digests here
\* vary in length and the concatenation keeps the boundary explicit.
merkle_hash(left, right) ==
    <<4>> \o left \o <<5>> \o right \o <<6>>

----------------------------------------------------------------------------
\* 4.C Merkle engine.

\* MerkleNode row.
MerkleNode(h, lv, pos, parent, lch, rch, isRoot, rid) ==
    [node_hash |-> h, level |-> lv, position |-> pos, is_leaf |-> (lv = 0),
     is_root |-> isRoot, parent_hash |-> parent, left_child_hash |-> lch,
     right_child_hash |-> rch, root_id |-> rid]

\* One pass of the pairing loop: the hashes of the next level.  The odd tail
\* is paired with itself.
NextLevel(cur) ==
    [k \in 1..((Len(cur) + 1) \div 2) |->
        merkle_hash(cur[2 * k - 1],
                    IF 2 * k <= Len(cur) THEN cur[2 * k] ELSE cur[2 * k - 1])]

\* Rows of the level `cur` (level number lv, built from the hashes `below`)
\* and of every level above it.
RECURSIVE TreeNodes(_, _, _, _)
TreeNodes(cur, below, lv, rid) ==
    LET up == NextLevel(cur)
        top == Len(cur) = 1
        row(k) ==
            MerkleNode(cur[k], lv, k - 1,
                       IF top THEN None ELSE up[(k + 1) \div 2],
                       IF lv = 0 THEN None ELSE below[2 * k - 1],
                       IF lv = 0 \/ 2 * k > Len(below) THEN None ELSE below[2 * k],
                       top, rid)
        here == {row(k) : k \in 1..Len(cur)}
    IN  IF top THEN here ELSE here \cup TreeNodes(up, cur, lv + 1, rid)

RECURSIVE TreeDepth(_)
TreeDepth(cur) == IF Len(cur) <= 1 THEN 0 ELSE 1 + TreeDepth(NextLevel(cur))

RECURSIVE TreeRootHash(_)
TreeRootHash(cur) == IF Len(cur) <= 1 THEN cur[1] ELSE TreeRootHash(NextLevel(cur))

\* MerkleRoot row created by build_merkle_tree.
MerkleRoot(rid, leaves) ==
    [id |-> rid, root_hash |-> TreeRootHash(leaves), tree_depth |-> TreeDepth(leaves),
     leaf_count |-> Len(leaves), start_sequence |-> 0, end_sequence |-> Len(leaves) - 1,
     is_anchored |-> FALSE, anchored_at |-> 0, blockchain_anchor_id |-> 0]

\* The flush of build_merkle_tree succeeds only if the unique constraints on
\* merkle_nodes.node_hash and merkle_roots.root_hash hold.
BuildFlushes(leaves, nodes, roots) ==
    /\ Len(leaves) >= 1
    /\ \A i, j \in 1..Len(leaves) : leaves[i] = leaves[j] => i = j
    /\ LET stored == {n.node_hash : n \in nodes}
           new == TreeNodes(leaves, <<>>, 0, 0)
       IN  /\ \A i \in 1..Len(leaves) : leaves[i] \notin stored
           /\ \A m, n \in new : m.node_hash = n.node_hash => m = n
           /\ \A m \in new : m.node_hash \notin stored
           /\ \A i \in 1..Len(roots) : roots[i].root_hash # TreeRootHash(leaves)

\* scalar_one_or_none / scalar_one over a result set.
Rows(S) == IF S = {} THEN "none" ELSE IF Cardinality(S) = 1 THEN "one" ELSE "many"
TheRow(S) == CHOOSE x \in S : TRUE

\* One step of proof_path, for the current node and the result set of the
\* sibling query.  The Flipped variant swaps the sides; it is what C1 must
\* tell apart.
ProofStepFlipped(current, sib) ==
    [hash |-> IF sib # {} THEN TheRow(sib).node_hash ELSE current.node_hash,
     position |-> IF sib # {} /\ TheRow(sib).position < current.position
                  THEN "right" ELSE "left"]

ProofStep(current, sib) ==
    [hash |-> IF sib # {} THEN TheRow(sib).node_hash ELSE current.node_hash,
     position |-> IF sib # {} /\ TheRow(sib).position > current.position
                  THEN "right" ELSE "left"]

\* The while loop of generate_merkle_proof, walking parent_hash through the
\* store; fuel bounds the walk by the number of stored nodes.
RECURSIVE ProofWalk(_, _, _, _)
ProofWalk(nodes, current, path, fuel) ==
    IF current.is_root
    THEN [kind |-> "proof", root_hash |-> current.node_hash, proof_path |-> path]
    ELSE LET sib == {n \in nodes : /\ current.parent_hash # None
                                   /\ n.parent_hash = current.parent_hash
                                   /\ n.node_hash # current.node_hash}
             up  == {n \in nodes : n.node_hash = current.parent_hash}
         IN  IF Rows(sib) = "many" \/ Rows(up) # "one" \/ fuel = 0
             THEN [kind |-> "error", root_hash |-> None, proof_path |-> <<>>]
             ELSE ProofWalk(nodes, TheRow(up),
                            Append(path, ProofStep(current, sib)), fuel - 1)

\* BlockchainService.generate_merkle_proof.
generate_merkle_proof(nodes, leaf_hash, merkle_root_id) ==
    LET leaf == {n \in nodes : n.node_hash = leaf_hash /\ n.root_id = merkle_root_id}
    IN  IF Rows(leaf) = "none"
        THEN [kind |-> "none", root_hash |-> None, proof_path |-> <<>>]
        ELSE IF Rows(leaf) = "many"
        THEN [kind |-> "error", root_hash |-> None, proof_path |-> <<>>]
        ELSE ProofWalk(nodes, TheRow(leaf), <<>>, Cardinality(nodes))

\* BlockchainService.verify_merkle_proof.
RECURSIVE FoldProof(_, _, _)
FoldProof(cur, path, i) ==
    IF i > Len(path) THEN cur
    ELSE FoldProof(IF path[i].position = "left"
                   THEN merkle_hash(path[i].hash, cur)
                   ELSE merkle_hash(cur, path[i].hash), path, i + 1)

\* The Unbound variant leaves out the final comparison with the root.
verify_merkle_proofUnbound(leaf_hash, root_hash, proof_path) ==
    FoldProof(leaf_hash, proof_path, 1) # None

verify_merkle_proof(leaf_hash, root_hash, proof_path) ==
    FoldProof(leaf_hash, proof_path, 1) = root_hash

----------------------------------------------------------------------------
\* The store after construction: every table empty, nothing running.

SettingsOff == [blockchain_enabled |-> FALSE, w3 |-> FALSE, anchor_private_key |-> FALSE]

NoProof == [leaf_hash |-> None, root_id |-> 0, kind |-> "none", root_hash |-> None,
            proof_path |-> <<>>, verified |-> FALSE]

InitStore ==
    /\ audit_logs = <<>>
    /\ sequence_value = 0
    /\ commit_order = <<>>
    /\ merkle_nodes = {}
    /\ merkle_roots = <<>>
    /\ blockchain_anchors = <<>>
    /\ anchor_tasks = <<>>
    /\ ledger = [block_number |-> 1, receipts |-> <<>>]
    /\ tombstone_records = <<>>
    /\ deletion_tasks = <<>>
    /\ now = 1
    /\ proof_result = NoProof
    /\ tombstone_result = [kind |-> "none"]
    /\ integrity_report = [kind |-> "none"]
    /\ lineage = [pc |-> "none"]

----------------------------------------------------------------------------
\* The Merkle engine on its own: builds over caller-supplied leaf lists and
\* proofs for stored leaves.

\* Leaf hashes a caller may pass: plain digests and one digest that equals the
\* parent of two others.
LeafHashes ==
    {hash_string(10 + i) : i \in 1..MaxLeaves}
        \cup {merkle_hash(hash_string(11), hash_string(12))}

\* The lists a caller passes: every ordering of every set of distinct leaf
\* hashes, the empty list, and the lists that repeat one hash.
RECURSIVE DistinctSeqs(_)
DistinctSeqs(S) ==
    IF S = {} THEN {<<>>}
    ELSE {<<>>} \cup UNION {{<<x>> \o q : q \in DistinctSeqs(S \ {x})} : x \in S}

LeafLists == DistinctSeqs(LeafHashes) \cup {<<h, h>> : h \in LeafHashes}

\* BlockchainService.build_merkle_tree.  An empty list raises ValueError, a
\* violated unique constraint raises at the flush; both leave the store as it was.
build_merkle_tree(audit_log_hashes) ==
    IF BuildFlushes(audit_log_hashes, merkle_nodes, merkle_roots)
    THEN LET rid == Len(merkle_roots) + 1
         IN  /\ merkle_nodes' = merkle_nodes \cup TreeNodes(audit_log_hashes, <<>>, 0, rid)
             /\ merkle_roots' = Append(merkle_roots, MerkleRoot(rid, audit_log_hashes))
    ELSE UNCHANGED <<merkle_nodes, merkle_roots>>

MerkleBuild(leaves) ==
    /\ build_merkle_tree(leaves)
    /\ UNCHANGED <<settings, now, ingestVars, anchorVars, gdprVars, resultVars>>

\* get_merkle_proof's use of the engine: generate the proof for a leaf of a
\* stored root, then verify it against the root hash the proof names.
MerkleProve(leaf_hash, rid) ==
    /\ rid \in 1..Len(merkle_roots)
    /\ LET p == generate_merkle_proof(merkle_nodes, leaf_hash, rid)
       IN  proof_result' =
               [leaf_hash |-> leaf_hash, root_id |-> rid, kind |-> p.kind,
                root_hash |-> p.root_hash, proof_path |-> p.proof_path,
                verified |-> /\ p.kind = "proof"
                             /\ verify_merkle_proof(leaf_hash, p.root_hash, p.proof_path)]
    /\ UNCHANGED <<settings, now, ingestVars, merkleVars, anchorVars, gdprVars,
                   tombstone_result, integrity_report, lineage>>

InitMerkle == InitStore /\ settings = SettingsOff

NextMerkle ==
    \/ /\ Len(merkle_roots) < MaxTrees
       /\ \E leaves \in LeafLists : MerkleBuild(leaves)
    \/ \E h \in LeafHashes, rid \in 1..MaxTrees : MerkleProve(h, rid)

SpecMerkle == InitMerkle /\ [][NextMerkle]_vars

\* The leaves stored for a root.
LeavesOf(rid) == {n \in merkle_nodes : n.root_id = rid /\ n.is_leaf}

\* C1 -- Merkle round-trip: for every stored tree (any size n >= 1, odd sizes
\* included) and every leaf of it, generate_merkle_proof returns a proof and
\* verify_merkle_proof accepts that proof against the root hash of the tree.
C1_MerkleRoundTrip ==
    \A rid \in 1..Len(merkle_roots) :
        \A n \in LeavesOf(rid) :
            LET p == generate_merkle_proof(merkle_nodes, n.node_hash, rid)
            IN  /\ p.kind = "proof"
                /\ verify_merkle_proof(n.node_hash, merkle_roots[rid].root_hash, p.proof_path)

\* A proof of the self-paired third leaf of a tree with an odd number of
\* leaves was generated and accepted.
C1_Witness ==
    /\ proof_result.verified
    /\ Len(proof_result.proof_path) >= 2
    /\ proof_result.proof_path[1].hash = proof_result.leaf_hash
    /\ merkle_roots[proof_result.root_id].leaf_count = 3

\* C19 -- Merkle binding: for every stored tree, (a) the proof generated for
\* a leaf L is rejected by verify_merkle_proof when it is presented with a
\* leaf hash different from L or with a root hash different from the tree's
\* root, (b) replacing the sibling hash of any step of the proof (a leaf or
\* an interior node of the tree) by a different value makes it rejected, and
\* (c) after the hash of any single node of the tree (leaf, interior or root)
\* is replaced in the store by a different value, at least one leaf of the
\* tree no longer has a proof that verify_merkle_proof accepts against the
\* recorded root.
C19_MerkleBinding ==
    \A rid \in 1..Len(merkle_roots) :
        LET root == merkle_roots[rid].root_hash
            others == {n.node_hash : n \in merkle_nodes} \cup LeafHashes
                          \cup {hash_string(0)}
            accepted(nodes, n) ==
                LET p == generate_merkle_proof(nodes, n.node_hash, rid)
                IN  /\ p.kind = "proof"
                    /\ verify_merkle_proof(n.node_hash, root, p.proof_path)
            replaced(x, h) ==
                (merkle_nodes \ {x}) \cup {[x EXCEPT !.node_hash = h]}
        IN  /\ \A n \in LeavesOf(rid) :
                  LET p == generate_merkle_proof(merkle_nodes, n.node_hash, rid)
                  IN  p.kind = "proof" =>
                         \A h \in others :
                            /\ h # n.node_hash =>
                                  ~verify_merkle_proof(h, root, p.proof_path)
                            /\ h # root =>
                                  ~verify_merkle_proof(n.node_hash, h, p.proof_path)
                            /\ \A i \in 1..Len(p.proof_path) :
                                  h # p.proof_path[i].hash =>
                                     ~verify_merkle_proof(n.node_hash, root,
                                          [p.proof_path EXCEPT ![i].hash = h])
            /\ \A x \in {n \in merkle_nodes : n.root_id = rid} :
                  \A h \in others \ {x.node_hash} :
                     \E n \in {l \in replaced(x, h) : l.root_id = rid /\ l.is_leaf} :
                        ~accepted(replaced(x, h), n)

\* A proof through an interior node was generated and accepted: a leaf of a
\* tree of depth two whose first step names its sibling leaf and whose second
\* step names an interior node.
C19_Witness ==
    /\ proof_result.verified
    /\ Len(proof_result.proof_path) = 2
    /\ proof_result.proof_path[1].hash # proof_result.leaf_hash
    /\ \E x \in merkle_nodes :
          /\ x.root_id = proof_result.root_id
          /\ ~x.is_leaf
          /\ ~x.is_root
          /\ x.node_hash = proof_result.proof_path[2].hash

\* The proof paths a caller of the verify endpoint sends: up to two steps,
\* each with any of the offered hashes and a position that is "left",
\* "right" or something else.
ProofSteps == [hash : LeafHashes, position : {"left", "right", "up"}]

ProofPaths == {<<>>} \cup {<<a>> : a \in ProofSteps}
                  \cup {<<a, b>> : a \in ProofSteps, b \in {c \in ProofSteps : c.position = "left"}}

\* The verify endpoint: verify_merkle_proof on the caller's leaf hash, root
\* hash and proof path; the verdict is returned.
VerifyProof(leaf_hash, root_hash, proof_path) ==
    /\ proof_result' =
           [leaf_hash |-> leaf_hash, root_id |-> 0, kind |-> "verdict",
            root_hash |-> root_hash, proof_path |-> proof_path,
            verified |-> verify_merkle_proof(leaf_hash, root_hash, proof_path)]
    /\ UNCHANGED <<settings, now, ingestVars, merkleVars, anchorVars, gdprVars,
                   tombstone_result, integrity_report, lineage>>

NextVerify ==
    \/ /\ Len(merkle_roots) < MaxTrees
       /\ \E leaves \in {<<hash_string(11), hash_string(12)>>, <<hash_string(13)>>} :
             MerkleBuild(leaves)
    \/ \E leaf_hash \in LeafHashes, rid \in 1..Len(merkle_roots), proof_path \in ProofPaths :
          VerifyProof(leaf_hash, merkle_roots[rid].root_hash, proof_path)

SpecVerify == InitMerkle /\ [][NextVerify]_vars

\* C23 -- verify_merkle_proof rejects a malformed proof: when a step of the
\* proof path has a position that is neither "left" nor "right" the outcome
\* is the InvalidProof error, not a verdict.
C23_MalformedRejected ==
    (/\ proof_result.kind # "none"
     /\ \E i \in 1..Len(proof_result.proof_path) :
           proof_result.proof_path[i].position \notin {"left", "right"})
        => proof_result.kind = "InvalidProof"

\* The node the walk of generate_merkle_proof stands on after k moves up
\* from node n.
RECURSIVE WalkNode(_, _, _)
WalkNode(nodes, n, k) ==
    IF k = 0 THEN n
    ELSE LET below == WalkNode(nodes, n, k - 1)
         IN  TheRow({m \in nodes : m.node_hash = below.parent_hash})

\* C22 -- in the proof generate_merkle_proof emits, a step taken at a node
\* without a sibling (odd-tail self-pair) carries the node's own hash with
\* position "right"; every other step carries the sibling's hash, with
\* position "left" exactly when the sibling is the left node of the pair and
\* "right" exactly when it is the right node.
C22_ProofPositions ==
    \A rid \in 1..Len(merkle_roots) :
        \A n \in LeavesOf(rid) :
            LET p == generate_merkle_proof(merkle_nodes, n.node_hash, rid)
            IN  /\ p.kind = "proof"
                /\ \A i \in 1..Len(p.proof_path) :
                      LET cur == WalkNode(merkle_nodes, n, i - 1)
                          pair == {m \in merkle_nodes :
                                      /\ m.root_id = rid
                                      /\ m.level = cur.level
                                      /\ m.position # cur.position
                                      /\ m.position \div 2 = cur.position \div 2}
                          step == p.proof_path[i]
                      IN  IF pair = {}
                          THEN /\ step.hash = cur.node_hash
                               /\ step.position = "right"
                          ELSE \A m \in pair :
                                  /\ step.hash = m.node_hash
                                  /\ step.position = "left" <=> m.position < cur.position
                                  /\ step.position = "right" <=> m.position > cur.position

----------------------------------------------------------------------------
\* 4.D Anchor worker.  anchor_to_blockchain is a task that is suspended at
\* each flush and at the sleep of the receipt poll; verify_anchor and the
\* chain itself run in between.

\* Confirmations after which verify_anchor finalizes.
FinalityDepth == 12

\* Configurations the service can be constructed with (_init_web3): no handle
\* when the ledger is disabled or the connection attempt raised.
SettingsSet ==
    {c \in [blockchain_enabled : BOOLEAN, w3 : BOOLEAN, anchor_private_key : BOOLEAN] :
        /\ c.w3 => c.blockchain_enabled
        /\ ~c.blockchain_enabled => ~c.anchor_private_key}

\* BlockchainAnchor rows.  history is the set of statuses the row has had.
SimulatedAnchor(root, aid) ==
    [id |-> aid, merkle_root_id |-> 0, root_hash |-> root.root_hash,
     network_name |-> "simulated", status |-> "CONFIRMED", tx_hash |-> 0 - aid,
     block_number |-> 1, confirmed_at |-> now, finalized_at |-> now,
     retry_count |-> 0, last_error |-> "", history |-> {"CONFIRMED"}]

PendingAnchor(root, aid) ==
    [id |-> aid, merkle_root_id |-> root.id, root_hash |-> root.root_hash,
     network_name |-> "ethereum", status |-> "PENDING", tx_hash |-> 0,
     block_number |-> 0, confirmed_at |-> 0, finalized_at |-> 0,
     retry_count |-> 0, last_error |-> "", history |-> {"PENDING"}]

SetStatus(anchor, st) ==
    [anchor EXCEPT !.status = st, !.history = @ \cup {st}]

\* The except branch of anchor_to_blockchain.  The NoRetry variant leaves
\* retry_count alone.
AnchorFailedNoRetry(anchor, err) ==
    [SetStatus(anchor, "FAILED") EXCEPT !.last_error = err]

AnchorFailed(anchor, err) ==
    [SetStatus(anchor, "FAILED") EXCEPT !.last_error = err, !.retry_count = @ + 1]

\* The root marked anchored by anchor aid.  The NoLink variant does not
\* record the anchor id.
RootAnchoredNoLink(root, aid) ==
    [root EXCEPT !.is_anchored = TRUE, !.anchored_at = now]

RootAnchored(root, aid) ==
    [root EXCEPT !.is_anchored = TRUE, !.anchored_at = now, !.blockchain_anchor_id = aid]

AnchorTask(rid, aid, pc) ==
    [root_id |-> rid, anchor |-> aid, pc |-> pc, polls |-> 0, error |-> ""]

\* The call after the `raise` of the except branch: it ends with the
\* exception.  The Retries variant starts the submission over instead.
RaisedRetries(task, err) == [task EXCEPT !.pc = "submit", !.error = err]

Raised(task, err) == [task EXCEPT !.pc = "raised", !.error = err]

\* anchor_to_blockchain up to its first flush: the simulated anchor when there
\* is no ledger handle, else a PENDING anchor.
AnchorStart(rid) ==
    /\ rid \in 1..Len(merkle_roots)
    /\ Len(blockchain_anchors) < MaxAnchors
    /\ LET aid == Len(blockchain_anchors) + 1
           root == merkle_roots[rid]
       IN  IF ~settings.blockchain_enabled \/ ~settings.w3
           THEN /\ blockchain_anchors' = Append(blockchain_anchors, SimulatedAnchor(root, aid))
                /\ merkle_roots' = [merkle_roots EXCEPT ![rid] = RootAnchored(root, aid)]
                /\ anchor_tasks' = Append(anchor_tasks, AnchorTask(rid, aid, "returned"))
           ELSE /\ blockchain_anchors' = Append(blockchain_anchors, PendingAnchor(root, aid))
                /\ merkle_roots' = merkle_roots
                /\ anchor_tasks' = Append(anchor_tasks, AnchorTask(rid, aid, "submit"))
    /\ UNCHANGED <<settings, now, ingestVars, merkle_nodes, ledger, gdprVars, resultVars>>

\* _submit_anchor_transaction and the flush after it.  accepted: the ledger
\* took the transaction; otherwise the call raised.
AnchorSubmit(t, accepted) ==
    /\ t \in 1..Len(anchor_tasks)
    /\ anchor_tasks[t].pc = "submit"
    /\ LET aid == anchor_tasks[t].anchor
           a == blockchain_anchors[aid]
           tx == Len(ledger.receipts) + 1
       IN  IF ~settings.w3 \/ ~settings.anchor_private_key
           THEN /\ blockchain_anchors' =
                       [blockchain_anchors EXCEPT ![aid] = AnchorFailed(a, "ValueError")]
                /\ anchor_tasks' = [anchor_tasks EXCEPT ![t] = Raised(@, "ValueError")]
                /\ ledger' = ledger
           ELSE IF accepted
           THEN /\ blockchain_anchors' =
                       [blockchain_anchors EXCEPT
                           ![aid] = [SetStatus(a, "SUBMITTED") EXCEPT !.tx_hash = tx]]
                /\ anchor_tasks' = [anchor_tasks EXCEPT ![t].pc = "wait"]
                /\ ledger' = [ledger EXCEPT !.receipts = Append(@, 0)]
           ELSE /\ blockchain_anchors' =
                       [blockchain_anchors EXCEPT ![aid] = AnchorFailed(a, "LedgerError")]
                /\ anchor_tasks' = [anchor_tasks EXCEPT ![t] = Raised(@, "LedgerError")]
                /\ ledger' = ledger
    /\ UNCHANGED <<settings, now, ingestVars, merkleVars, gdprVars, resultVars>>

\* Block of the receipt of transaction tx, 0 when there is none yet.
ReceiptBlock(tx) ==
    IF tx \in 1..Len(ledger.receipts) THEN ledger.receipts[tx] ELSE 0

\* _wait_for_confirmation, one wake-up of the poll loop while the wait is not
\* over: the receipt is there and the anchor is confirmed, or the task sleeps.
AnchorPoll(t) ==
    /\ t \in 1..Len(anchor_tasks)
    /\ anchor_tasks[t].pc = "wait"
    /\ anchor_tasks[t].polls < MaxPolls
    /\ LET aid == anchor_tasks[t].anchor
           rid == anchor_tasks[t].root_id
           a == blockchain_anchors[aid]
           blk == ReceiptBlock(a.tx_hash)
       IN  IF blk > 0
           THEN /\ blockchain_anchors' =
                       [blockchain_anchors EXCEPT
                           ![aid] = [SetStatus(a, "CONFIRMED") EXCEPT
                                        !.block_number = blk, !.confirmed_at = now]]
                /\ merkle_roots' =
                       [merkle_roots EXCEPT ![rid] = RootAnchored(merkle_roots[rid], aid)]
                /\ anchor_tasks' = [anchor_tasks EXCEPT ![t].pc = "returned"]
           ELSE /\ anchor_tasks' = [anchor_tasks EXCEPT ![t].polls = @ + 1]
                /\ UNCHANGED <<blockchain_anchors, merkle_roots>>
    /\ UNCHANGED <<settings, now, ingestVars, merkle_nodes, ledger, gdprVars, resultVars>>

\* The poll raised: TimeoutError once the bounded wait is over, or the
\* receipt lookup failed with something other than TransactionNotFound.
\* anchor_to_blockchain catches it, marks the anchor FAILED and re-raises.
AnchorPollRaises(t, err) ==
    /\ t \in 1..Len(anchor_tasks)
    /\ anchor_tasks[t].pc = "wait"
    /\ err = "TimeoutError" <=> anchor_tasks[t].polls >= MaxPolls
    /\ LET aid == anchor_tasks[t].anchor
       IN  blockchain_anchors' =
               [blockchain_anchors EXCEPT ![aid] = AnchorFailed(blockchain_anchors[aid], err)]
    /\ anchor_tasks' = [anchor_tasks EXCEPT ![t] = Raised(@, err)]
    /\ UNCHANGED <<settings, now, ingestVars, merkleVars, ledger, gdprVars, resultVars>>

\* BlockchainService.verify_anchor on a stored anchor.  The Strict variant
\* wants one confirmation more.
verify_anchorStrict(a) ==
    IF ~settings.w3 \/ a.network_name = "simulated" THEN a
    ELSE IF ReceiptBlock(a.tx_hash) = 0 THEN a
    ELSE IF ledger.block_number - ReceiptBlock(a.tx_hash) > FinalityDepth
            /\ a.status # "FINALIZED"
    THEN [SetStatus(a, "FINALIZED") EXCEPT !.finalized_at = now]
    ELSE a

verify_anchor(a) ==
    IF ~settings.w3 \/ a.network_name = "simulated" THEN a
    ELSE IF ReceiptBlock(a.tx_hash) = 0 THEN a
    ELSE IF ledger.block_number - ReceiptBlock(a.tx_hash) >= FinalityDepth
            /\ a.status # "FINALIZED"
    THEN [SetStatus(a, "FINALIZED") EXCEPT !.finalized_at = now]
    ELSE a

VerifyAnchor(aid) ==
    /\ aid \in 1..Len(blockchain_anchors)
    /\ blockchain_anchors' =
           [blockchain_anchors EXCEPT ![aid] = verify_anchor(blockchain_anchors[aid])]
    /\ UNCHANGED <<settings, now, ingestVars, merkleVars, anchor_tasks, ledger, gdprVars,
                   resultVars>>

\* The chain: a pending transaction is included in the next block; the head
\* advances.  The head is observed only through receipts, so the blocks before
\* the first receipt are not told apart.
LedgerMine(tx) ==
    /\ tx \in 1..Len(ledger.receipts)
    /\ ledger.receipts[tx] = 0
    /\ ledger.block_number < MaxBlock
    /\ ledger' = [block_number |-> ledger.block_number + 1,
                  receipts |-> [ledger.receipts EXCEPT ![tx] = ledger.block_number + 1]]
    /\ UNCHANGED <<settings, now, ingestVars, merkleVars, blockchain_anchors, anchor_tasks,
                   gdprVars, resultVars>>

LedgerAdvance(d) ==
    /\ \E tx \in 1..Len(ledger.receipts) : ledger.receipts[tx] > 0
    /\ ledger.block_number + d <= MaxBlock
    /\ ledger' = [ledger EXCEPT !.block_number = @ + d]
    /\ UNCHANGED <<settings, now, ingestVars, merkleVars, blockchain_anchors, anchor_tasks,
                   gdprVars, resultVars>>

\* Roots offered to the anchor worker.
AnchorLeafLists == {<<hash_string(11)>>, <<hash_string(12), hash_string(13)>>}

InitAnchor == InitStore /\ settings \in SettingsSet

InitLedger == InitStore /\ settings \in {c \in SettingsSet : c.w3}

NextAnchor ==
    \/ \E leaves \in AnchorLeafLists : MerkleBuild(leaves)
    \/ \E rid \in 1..MaxTrees : AnchorStart(rid)
    \/ \E t \in 1..MaxAnchors, accepted \in BOOLEAN : AnchorSubmit(t, accepted)
    \/ \E t \in 1..MaxAnchors : AnchorPoll(t)
    \/ \E t \in 1..MaxAnchors, err \in {"TimeoutError", "LedgerError"} : AnchorPollRaises(t, err)
    \/ \E aid \in 1..MaxAnchors : VerifyAnchor(aid)
    \/ \E tx \in 1..MaxAnchors : LedgerMine(tx)
    \/ \E d \in {1, FinalityDepth - 1} : LedgerAdvance(d)

SpecAnchor == InitAnchor /\ [][NextAnchor]_vars

SpecLedger == InitLedger /\ [][NextAnchor]_vars

\* Position of a status in the order PENDING < SUBMITTED < CONFIRMED <
\* FINALIZED; FAILED has none.
Rank(st) ==
    CASE st = "PENDING" -> 1
      [] st = "SUBMITTED" -> 2
      [] st = "CONFIRMED" -> 3
      [] st = "FINALIZED" -> 4
      [] OTHER -> 0

\* C3 -- the anchor state machine never reverses: in no step, under any
\* interleaving of anchor_to_blockchain and verify_anchor on the same anchor,
\* does an anchor's status move backward in PENDING < SUBMITTED < CONFIRMED <
\* FINALIZED, and a FINALIZED anchor stays FINALIZED (it never becomes
\* CONFIRMED, SUBMITTED, PENDING or FAILED again).
C3_NeverReverses ==
    [][\A aid \in 1..Len(blockchain_anchors) :
          LET old == blockchain_anchors[aid].status
              new == blockchain_anchors'[aid].status
          IN  /\ (Rank(old) > 0 /\ Rank(new) > 0) => Rank(new) >= Rank(old)
              /\ old = "FINALIZED" => new = "FINALIZED"]_vars

\* C4 -- FINALIZED implies CONFIRMED implies SUBMITTED: every FINALIZED
\* anchor has been CONFIRMED before and has confirmed_at set, and every
\* CONFIRMED anchor has been SUBMITTED before.
C4_FinalizedImpliesConfirmed ==
    \A aid \in 1..Len(blockchain_anchors) :
        LET a == blockchain_anchors[aid]
        IN  /\ a.status = "FINALIZED" =>
                   ("CONFIRMED" \in a.history /\ a.confirmed_at # 0)
            /\ a.status = "CONFIRMED" => "SUBMITTED" \in a.history

\* C10 -- when the bounded wait elapses without a receipt, the step that
\* surfaces the Timeout leaves the anchor's status as it was (SUBMITTED, not
\* FAILED) and does not increment retry_count.
C10_TimeoutStaysSubmitted ==
    [][\A t \in 1..Len(anchor_tasks) :
          (/\ anchor_tasks[t].pc = "wait"
           /\ anchor_tasks'[t].pc = "raised"
           /\ anchor_tasks'[t].error = "TimeoutError")
          => LET aid == anchor_tasks[t].anchor
             IN  /\ blockchain_anchors'[aid].status = blockchain_anchors[aid].status
                 /\ blockchain_anchors'[aid].status # "FAILED"
                 /\ blockchain_anchors'[aid].retry_count
                        = blockchain_anchors[aid].retry_count]_vars

\* C11 -- every step in which ledger submission or receipt polling raises
\* leaves the anchor FAILED with the error recorded in last_error and
\* retry_count incremented by exactly one, and leaves is_anchored, anchored_at
\* and blockchain_anchor_id of every Merkle root unchanged.
C11_FailureRecorded ==
    [][\A t \in 1..Len(anchor_tasks) :
          (anchor_tasks[t].pc \in {"submit", "wait"} /\ anchor_tasks'[t].pc = "raised")
          => LET aid == anchor_tasks[t].anchor
             IN  /\ blockchain_anchors'[aid].status = "FAILED"
                 /\ anchor_tasks'[t].error # ""
                 /\ blockchain_anchors'[aid].last_error = anchor_tasks'[t].error
                 /\ blockchain_anchors'[aid].retry_count
                        = blockchain_anchors[aid].retry_count + 1
                 /\ merkle_roots' = merkle_roots]_vars

\* A submission failed for one anchor call, or the poll of a submitted
\* transaction failed: the anchor is FAILED with one retry counted and its
\* root is not anchored.
C11_Witness ==
    \E t \in 1..Len(anchor_tasks) :
        LET a == blockchain_anchors[anchor_tasks[t].anchor]
        IN  /\ anchor_tasks[t].pc = "raised"
            /\ anchor_tasks[t].polls > 0
            /\ a.status = "FAILED" /\ a.retry_count = 1 /\ a.tx_hash # 0
            /\ a.last_error = "LedgerError"
            /\ ~merkle_roots[anchor_tasks[t].root_id].is_anchored

\* C12 -- the anchor worker swallows failures: no call of
\* anchor_to_blockchain ends by propagating an exception to its caller; a
\* failed submission or poll shows only in the anchor row.
C12_FailuresSwallowed ==
    \A t \in 1..Len(anchor_tasks) : anchor_tasks[t].pc # "raised"

C14_FinalizedAtTwelve ==
    \A aid \in 1..Len(blockchain_anchors) :
        LET a == blockchain_anchors[aid]
            v == verify_anchor(a)
        IN  (a.status = "CONFIRMED" /\ a.network_name # "simulated") =>
                IF ledger.block_number - a.block_number >= 12
                THEN v.status = "FINALIZED" /\ v.finalized_at = now /\ v.finalized_at # 0
                ELSE v = a

\* An anchor that was CONFIRMED has been finalized with exactly 12
\* confirmations.
C14_Witness ==
    \E aid \in 1..Len(blockchain_anchors) :
        LET a == blockchain_anchors[aid]
        IN  /\ a.status = "FINALIZED"
            /\ a.history = {"PENDING", "SUBMITTED", "CONFIRMED", "FINALIZED"}
            /\ a.confirmed_at # 0
            /\ ledger.block_number - a.block_number = 12

\* C15 -- an anchor created by anchor_to_blockchain is a simulated one
\* (network_name "simulated", created directly in CONFIRMED) if and only if
\* blockchain_enabled is false; with the ledger enabled no simulated anchor is
\* ever created, also when the connection could not be established.
C15_SimulatedIffDisabled ==
    \A aid \in 1..Len(blockchain_anchors) :
        blockchain_anchors[aid].network_name = "simulated"
            <=> ~settings.blockchain_enabled

\* An anchor whose status counts as anchored for the root it names.
Settled(a) == a.status \in {"CONFIRMED", "FINALIZED"}

\* C20 -- after any sequence of anchoring operations a MerkleRoot has
\* is_anchored = true if and only if its blockchain_anchor_id refers to an
\* anchor whose status is CONFIRMED or FINALIZED and whose root_hash equals
\* the root's; a root becomes anchored only in a step in which that anchor
\* becomes CONFIRMED (anchored_at and the anchor id set in the same step),
\* and every step in which an anchor becomes CONFIRMED marks its root.
C20_AnchoredIffConfirmed ==
    [][/\ \A rid \in 1..Len(merkle_roots') :
             LET root == merkle_roots'[rid]
                 aid == root.blockchain_anchor_id
             IN  root.is_anchored <=>
                    /\ aid \in 1..Len(blockchain_anchors')
                    /\ Settled(blockchain_anchors'[aid])
                    /\ blockchain_anchors'[aid].root_hash = root.root_hash
       /\ \A rid \in 1..Len(merkle_roots) :
             (~merkle_roots[rid].is_anchored /\ merkle_roots'[rid].is_anchored) =>
                LET aid == merkle_roots'[rid].blockchain_anchor_id
                IN  /\ aid \in 1..Len(blockchain_anchors')
                    /\ blockchain_anchors'[aid].status = "CONFIRMED"
                    /\ \/ aid > Len(blockchain_anchors)
                       \/ blockchain_anchors[aid].status # "CONFIRMED"
                    /\ merkle_roots'[rid].anchored_at = now
       /\ \A aid \in 1..Len(blockchain_anchors') :
             (/\ blockchain_anchors'[aid].status = "CONFIRMED"
              /\ \/ aid > Len(blockchain_anchors)
                 \/ blockchain_anchors[aid].status # "CONFIRMED") =>
                \E rid \in 1..Len(merkle_roots') :
                    /\ merkle_roots'[rid].is_anchored
                    /\ merkle_roots'[rid].blockchain_anchor_id = aid
                    /\ merkle_roots'[rid].anchored_at = now
                    /\ merkle_roots'[rid].root_hash = blockchain_anchors'[aid].root_hash]_vars

\* A root anchored by a ledger anchor that went PENDING, SUBMITTED, CONFIRMED
\* and holds the receipt's block.
C20_Witness ==
    \E rid \in 1..Len(merkle_roots) :
        /\ merkle_roots[rid].is_anchored
        /\ LET aid == merkle_roots[rid].blockchain_anchor_id
           IN  /\ aid \in 1..Len(blockchain_anchors)
               /\ blockchain_anchors[aid].network_name = "ethereum"
               /\ blockchain_anchors[aid].merkle_root_id = rid
               /\ blockchain_anchors[aid].status = "CONFIRMED"
               /\ blockchain_anchors[aid].history = {"PENDING", "SUBMITTED", "CONFIRMED"}
               /\ blockchain_anchors[aid].block_number > 0

\* C28 -- every BlockchainAnchor, real or simulated, links to a MerkleRoot:
\* in every reachable state each anchor's merkle_root_id refers to an
\* existing root whose root_hash equals the anchor's root_hash.
C28_AnchorLinksRoot ==
    \A aid \in 1..Len(blockchain_anchors) :
        LET a == blockchain_anchors[aid]
        IN  /\ a.merkle_root_id \in 1..Len(merkle_roots)
            /\ merkle_roots[a.merkle_root_id].root_hash = a.root_hash

\* The ledger configurations with every operation that can run eventually
\* running: callers keep calling and the event loop resumes every suspended
\* task.
SpecLedgerFair == SpecLedger /\ WF_vars(NextAnchor)

----------------------------------------------------------------------------
\* 4.A Canonical hasher, continued.

\* HashService.hash_dict: the digest of the canonical JSON of a dictionary,
\* the dictionary given as the sequence of its values in key order.
hash_dict(data) == <<2>> \o data \o <<3>>

\* HashService.compute_audit_hash.
compute_audit_hash(input_data, output_data, context, metadata) ==
    LET input_hash == hash_string(input_data)
        output_hash == hash_string(output_data)
        context_hash == hash_dict(context)
    IN  [input_hash |-> input_hash, output_hash |-> output_hash,
         context_hash |-> context_hash,
         full_hash |-> hash_dict(context_hash \o input_hash \o metadata \o output_hash)]

\* HashService.verify_audit_hash.
verify_audit_hash(input_data, output_data, context, metadata, expected_full_hash) ==
    compute_audit_hash(input_data, output_data, context, metadata).full_hash
        = expected_full_hash

\* HashService.create_tombstone_hash; 9 stands for the type "TOMBSTONE".
create_tombstone_hash(original_hash, deletion_timestamp, deleted_by, reason) ==
    hash_dict(<<deleted_by>> \o deletion_timestamp \o original_hash \o <<reason, 9>>)

\* datetime.isoformat of the instant t: a timezone-aware value carries the
\* offset suffix "+00:00" (the trailing 0), a naive one does not.
isoformat(t, aware) == IF aware THEN <<t, 0>> ELSE <<t>>

----------------------------------------------------------------------------
\* 4.G Ingest pipeline.

Users == {61, 62}

\* AuditLogCreate inputs, without the decision_id.
CaptureInputs ==
    [organization_id : {51}, user_id : Users, model_name : {71}, decision_type : {81},
     prompt : {21}, response : {31}, context : {<<41>>}, related_decisions : {<<>>}]

DecisionIds == {100 + k : k \in 1..MaxLogs}

\* The metadata dictionary hashed with a record.
Metadata(r) == <<r.decision_type, r.model_name, r.organization_id, r.user_id>>

\* The AuditLog row of capture_log with its LLMInteraction and DecisionContext
\* rows, as inserted by the flush.
AuditLog(log_data, decision_id, seq) ==
    LET context == log_data.context \o log_data.related_decisions
        hashes == compute_audit_hash(log_data.prompt, log_data.response,
                                     context, Metadata(log_data))
    IN  [sequence_number |-> seq, created_at |-> now, decision_id |-> decision_id,
         organization_id |-> log_data.organization_id, user_id |-> log_data.user_id,
         model_name |-> log_data.model_name, decision_type |-> log_data.decision_type,
         input_hash |-> hashes.input_hash, output_hash |-> hashes.output_hash,
         context_hash |-> hashes.context_hash, full_hash |-> hashes.full_hash,
         is_gdpr_deleted |-> FALSE, gdpr_deleted_at |-> 0,
         merkle_root |-> None, blockchain_tx_hash |-> None,
         interaction |-> <<log_data.prompt, log_data.response>>,
         context |-> context, related_decisions |-> log_data.related_decisions,
         committed |-> FALSE]

\* The flush of capture_log raises when the decision_id is taken.
CaptureConflict(decision_id) ==
    \E i \in 1..Len(audit_logs) : audit_logs[i].decision_id = decision_id

\* capture_log: the store hands out the next sequence_number at the flush; the
\* row is not committed yet.
CaptureFlush(log_data, decision_id) ==
    /\ sequence_value < MaxLogs
    /\ IF CaptureConflict(decision_id)
       THEN UNCHANGED <<audit_logs, sequence_value>>
       ELSE /\ sequence_value' = sequence_value + 1
            /\ audit_logs' = Append(audit_logs,
                                    AuditLog(log_data, decision_id, sequence_value + 1))
    /\ UNCHANGED <<settings, now, commit_order, merkleVars, anchorVars, gdprVars, resultVars>>

\* The session of a capture commits.
CaptureCommit(i) ==
    /\ i \in 1..Len(audit_logs)
    /\ ~audit_logs[i].committed
    /\ audit_logs' = [audit_logs EXCEPT ![i].committed = TRUE]
    /\ commit_order' = Append(commit_order, audit_logs[i].sequence_number)
    /\ UNCHANGED <<settings, now, sequence_value, merkleVars, anchorVars, gdprVars, resultVars>>

\* A capture request served without another ingest in between: capture_log,
\* then the commit of its session.
Ingest(log_data, decision_id) ==
    /\ sequence_value < MaxLogs
    /\ IF CaptureConflict(decision_id)
       THEN UNCHANGED <<audit_logs, sequence_value, commit_order>>
       ELSE /\ sequence_value' = sequence_value + 1
            /\ audit_logs' =
                   Append(audit_logs,
                          [AuditLog(log_data, decision_id, sequence_value + 1)
                              EXCEPT !.committed = TRUE])
            /\ commit_order' = Append(commit_order, sequence_value + 1)
    /\ UNCHANGED <<settings, now, merkleVars, anchorVars, gdprVars, resultVars>>

\* The clock advances.
Tick ==
    /\ now < MaxClock
    /\ now' = now + 1
    /\ UNCHANGED <<settings, ingestVars, merkleVars, anchorVars, gdprVars, resultVars>>

InitIngest == InitStore /\ settings = SettingsOff

NextIngest ==
    \/ \E log_data \in CaptureInputs, decision_id \in DecisionIds :
          /\ decision_id <= 101 + Len(audit_logs)
          /\ CaptureFlush(log_data, decision_id)
    \/ \E i \in 1..MaxLogs : CaptureCommit(i)
    \/ Tick

SpecIngest == InitIngest /\ [][NextIngest]_vars

\* C9 -- sequence monotonicity: under concurrent capture_log calls the
\* assigned sequence_numbers are pairwise distinct, and they are strictly
\* increasing in the order in which the ingests commit.
C9_SequenceMonotonic ==
    /\ \A i, j \in 1..Len(audit_logs) :
          audit_logs[i].sequence_number = audit_logs[j].sequence_number => i = j
    /\ \A k \in 1..(Len(commit_order) - 1) : commit_order[k] < commit_order[k + 1]

----------------------------------------------------------------------------
\* 4.C on stored records: build_merkle_tree called with the full_hash of the
\* committed records lo..hi, in ascending sequence order.
RecordsBuild(lo, hi) ==
    /\ 1 <= lo /\ lo <= hi /\ hi <= Len(audit_logs)
    /\ \A i \in lo..hi : audit_logs[i].committed
    /\ build_merkle_tree([k \in 1..(hi - lo + 1) |-> audit_logs[lo + k - 1].full_hash])
    /\ UNCHANGED <<settings, now, ingestVars, anchorVars, gdprVars, resultVars>>

----------------------------------------------------------------------------
\* 4.E Tombstone manager.

\* settings.gdpr_deletion_retention_days.
GdprDeletionRetentionDays == 30

\* GDPRDeletionRequest inputs.
DeletionRequests ==
    [user_id : Users, organization_id : {51}, requested_by : {91}, reason : {95},
     specific_decision_ids : {None, <<101>>}, date_range_start : {None},
     date_range_end : {None}, retention_override_days : {None}]

\* Requests of one user with a date range.
DatedDeletionRequests ==
    [user_id : {61}, organization_id : {51}, requested_by : {91}, reason : {95},
     specific_decision_ids : {None}, date_range_start : {None, <<2>>},
     date_range_end : {None, <<2>>}, retention_override_days : {None}]

\* The where clause of request_deletion.
Matches(log, request) ==
    /\ log.committed
    /\ log.user_id = request.user_id
    /\ log.organization_id = request.organization_id
    /\ ~log.is_gdpr_deleted
    /\ \/ request.specific_decision_ids = None
       \/ \E k \in 1..Len(request.specific_decision_ids) :
             request.specific_decision_ids[k] = log.decision_id
    /\ request.date_range_start = None \/ log.created_at >= request.date_range_start[1]
    /\ request.date_range_end = None \/ log.created_at <= request.date_range_end[1]

\* logs_to_delete: the ids of the selected rows.
LogsToDelete(request) ==
    SelectSeq([i \in 1..Len(audit_logs) |-> i],
              LAMBDA i : Matches(audit_logs[i], request))

\* request.retention_override_days or settings.gdpr_deletion_retention_days.
RetentionDays(request) ==
    IF request.retention_override_days # None /\ request.retention_override_days[1] # 0
    THEN request.retention_override_days[1]
    ELSE GdprDeletionRetentionDays

DeletionTask(request, logs) ==
    [request |-> request, logs |-> logs, pos |-> 1, tombstone_ids |-> <<>>,
     retention_until |-> now + RetentionDays(request),
     pc |-> IF logs = <<>> THEN "raised" ELSE "loop",
     error |-> IF logs = <<>> THEN "ValidationError" ELSE ""]

\* request_deletion up to the loop.  With nothing selected it goes straight
\* to the response, and GDPRDeletionResponse raises ValidationError for the
\* required fields it is not given.
DeletionCall(request) ==
    /\ deletion_tasks' = Append(deletion_tasks, DeletionTask(request, LogsToDelete(request)))
    /\ UNCHANGED <<settings, now, ingestVars, merkleVars, anchorVars, tombstone_records,
                   resultVars>>

DeletionSelect(request) ==
    /\ Len(deletion_tasks) < MaxDeletions
    /\ DeletionCall(request)

\* TombstoneRecord row of _create_tombstone: the hash digests the naive
\* isoformat of the service's clock, created_at is the store's timestamptz.
TombstoneRecord(tid, log_id, log, task) ==
    [id |-> tid, original_audit_log_id |-> log_id,
     original_decision_id |-> log.decision_id,
     deleted_by |-> task.request.requested_by, deletion_reason |-> task.request.reason,
     original_hash |-> log.full_hash,
     deletion_hash |-> create_tombstone_hash(log.full_hash, isoformat(now, FALSE),
                                             task.request.requested_by,
                                             task.request.reason),
     created_at |-> now, permanent_retention_until |-> task.retention_until,
     deletion_anchor_tx_hash |-> 0, deletion_verified |-> FALSE]

\* The record marked by the loop of request_deletion.  The Scrubbed variant
\* also clears the stored full_hash; it is what C5 must tell apart.  The
\* Rehashed variant replaces the input_hash; it is what C17 must tell apart.
MarkDeletedRehashed(log) ==
    [log EXCEPT !.is_gdpr_deleted = TRUE, !.gdpr_deleted_at = now,
                !.input_hash = hash_string(0)]

MarkDeletedScrubbed(log) ==
    [log EXCEPT !.is_gdpr_deleted = TRUE, !.gdpr_deleted_at = now, !.full_hash = None]

MarkDeleted(log) ==
    [log EXCEPT !.is_gdpr_deleted = TRUE, !.gdpr_deleted_at = now]

\* The tombstone after a successful _anchor_tombstone.
TombstoneAnchored(tombstone, anchor) ==
    [tombstone EXCEPT !.deletion_anchor_tx_hash = anchor.tx_hash,
                      !.deletion_verified = TRUE]

\* Outcomes of the ledger during _anchor_tombstone.
AnchorOutcomes == {"confirmed", "submit_failed", "wait_failed"}

\* _anchor_tombstone after the tombstone's own flush: a one-leaf tree over the
\* deletion_hash and anchor_to_blockchain on its root, run to its end.  Every
\* exception is swallowed and leaves the tombstone unanchored.
anchor_tombstone(tombstone, outcome) ==
    LET leaves == <<tombstone.deletion_hash>>
        rid == Len(merkle_roots) + 1
        aid == Len(blockchain_anchors) + 1
        tx == Len(ledger.receipts) + 1
        root == MerkleRoot(rid, leaves)
        pending == PendingAnchor(root, aid)
        submitted == [SetStatus(pending, "SUBMITTED") EXCEPT !.tx_hash = tx]
        confirmed == [SetStatus(submitted, "CONFIRMED") EXCEPT
                         !.block_number = ledger.block_number + 1, !.confirmed_at = now]
    IN  IF ~BuildFlushes(leaves, merkle_nodes, merkle_roots)
        THEN /\ tombstone_records' = Append(tombstone_records, tombstone)
             /\ UNCHANGED <<merkleVars, blockchain_anchors, ledger>>
        ELSE /\ merkle_nodes' = merkle_nodes \cup TreeNodes(leaves, <<>>, 0, rid)
             /\ IF ~settings.w3
                THEN /\ merkle_roots' = Append(merkle_roots, RootAnchored(root, aid))
                     /\ blockchain_anchors' =
                            Append(blockchain_anchors, SimulatedAnchor(root, aid))
                     /\ tombstone_records' =
                            Append(tombstone_records,
                                   TombstoneAnchored(tombstone, SimulatedAnchor(root, aid)))
                     /\ ledger' = ledger
                ELSE IF ~settings.anchor_private_key \/ outcome = "submit_failed"
                THEN /\ merkle_roots' = Append(merkle_roots, root)
                     /\ blockchain_anchors' =
                            Append(blockchain_anchors,
                                   AnchorFailed(pending,
                                                IF settings.anchor_private_key
                                                THEN "LedgerError" ELSE "ValueError"))
                     /\ tombstone_records' = Append(tombstone_records, tombstone)
                     /\ ledger' = ledger
                ELSE IF outcome = "wait_failed"
                THEN /\ merkle_roots' = Append(merkle_roots, root)
                     /\ blockchain_anchors' =
                            Append(blockchain_anchors, AnchorFailed(submitted, "TimeoutError"))
                     /\ tombstone_records' = Append(tombstone_records, tombstone)
                     /\ ledger' = [ledger EXCEPT !.receipts = Append(@, 0)]
                ELSE /\ merkle_roots' = Append(merkle_roots, RootAnchored(root, aid))
                     /\ blockchain_anchors' = Append(blockchain_anchors, confirmed)
                     /\ tombstone_records' =
                            Append(tombstone_records, TombstoneAnchored(tombstone, confirmed))
                     /\ ledger' = [block_number |-> ledger.block_number + 1,
                                   receipts |-> Append(ledger.receipts,
                                                       ledger.block_number + 1)]

\* One pass of the loop of request_deletion: _create_tombstone (its flush
\* raises when the deletion_hash is already stored), the record marked, and
\* the tombstone anchored when the ledger is enabled.
DeletionStep(t, outcome) ==
    /\ t \in 1..Len(deletion_tasks)
    /\ deletion_tasks[t].pc = "loop"
    /\ deletion_tasks[t].pos <= Len(deletion_tasks[t].logs)
    /\ (settings.w3 /\ settings.anchor_private_key) \/ outcome = "confirmed"
    /\ LET task == deletion_tasks[t]
           log_id == task.logs[task.pos]
           tid == Len(tombstone_records) + 1
           tombstone == TombstoneRecord(tid, log_id, audit_logs[log_id], task)
       IN  IF \E k \in 1..Len(tombstone_records) :
                  tombstone_records[k].deletion_hash = tombstone.deletion_hash
           THEN /\ deletion_tasks' = [deletion_tasks EXCEPT ![t].pc = "raised",
                                                             ![t].error = "IntegrityError"]
                /\ UNCHANGED <<audit_logs, tombstone_records, merkleVars,
                               blockchain_anchors, ledger>>
           ELSE /\ deletion_tasks' =
                       [deletion_tasks EXCEPT ![t].pos = @ + 1,
                                              ![t].tombstone_ids = Append(@, tid)]
                /\ audit_logs' = [audit_logs EXCEPT ![log_id] = MarkDeleted(@)]
                /\ IF settings.blockchain_enabled
                   THEN anchor_tombstone(tombstone, outcome)
                   ELSE /\ tombstone_records' = Append(tombstone_records, tombstone)
                        /\ UNCHANGED <<merkleVars, blockchain_anchors, ledger>>
    /\ UNCHANGED <<settings, now, sequence_value, commit_order, anchor_tasks, resultVars>>

\* The end of request_deletion: the flush after the loop, the deletion proof
\* and the response.  GDPRDeletionResponse requires blockchain_tx_hash and
\* verification_url, which are not passed: ValidationError.
DeletionFinish(t) ==
    /\ t \in 1..Len(deletion_tasks)
    /\ deletion_tasks[t].pc = "loop"
    /\ deletion_tasks[t].pos > Len(deletion_tasks[t].logs)
    /\ deletion_tasks' = [deletion_tasks EXCEPT ![t].pc = "raised",
                                                 ![t].error = "ValidationError"]
    /\ UNCHANGED <<settings, now, ingestVars, merkleVars, anchorVars, tombstone_records,
                   resultVars>>

\* GDPRService.verify_tombstone on a stored tombstone: the hash recomputed
\* with the isoformat of the stored, timezone-aware created_at.
verify_tombstone(tombstone) ==
    [kind |-> "checked", tombstone_id |-> tombstone.id,
     deletion_verified |->
         create_tombstone_hash(tombstone.original_hash,
                               isoformat(tombstone.created_at, TRUE),
                               tombstone.deleted_by, tombstone.deletion_reason)
             = tombstone.deletion_hash,
     blockchain_anchored |-> tombstone.deletion_anchor_tx_hash # 0]

VerifyTombstone(tid) ==
    /\ tid \in 1..Len(tombstone_records)
    /\ tombstone_result' = verify_tombstone(tombstone_records[tid])
    /\ UNCHANGED <<settings, now, ingestVars, merkleVars, anchorVars, gdprVars,
                   proof_result, integrity_report, lineage>>

----------------------------------------------------------------------------
\* 4.F Integrity verifier.

\* LogCaptureService.get_logs_by_organization with include_deleted = False:
\* the ids of the rows loaded, and the count.
get_logs_by_organization(organization_id) ==
    {i \in 1..Len(audit_logs) :
        /\ audit_logs[i].committed
        /\ audit_logs[i].organization_id = organization_id
        /\ ~audit_logs[i].is_gdpr_deleted}

\* The hash check of one loaded row.  log.context is a DecisionContext row,
\* which has no model_dump: the check raises AttributeError when the row has
\* an interaction and a context.
HashCheck(log) ==
    IF log.interaction = None THEN "skipped"
    ELSE IF log.context # None THEN "AttributeError"
    ELSE IF verify_audit_hash(log.interaction[1], log.interaction[2], <<>>,
                              Metadata(log), log.full_hash)
    THEN "verified" ELSE "tampered"

\* get_integrity_report.
get_integrity_report(organization_id) ==
    LET logs == get_logs_by_organization(organization_id)
        checked == {i \in logs : ~audit_logs[i].is_gdpr_deleted}
        verified == {i \in checked : HashCheck(audit_logs[i]) = "verified"}
        tampered == {i \in checked : HashCheck(audit_logs[i]) = "tampered"}
        deleted == {i \in logs : audit_logs[i].is_gdpr_deleted}
    IN  IF \E i \in checked : HashCheck(audit_logs[i]) = "AttributeError"
        THEN [kind |-> "raised", error |-> "AttributeError",
              organization_id |-> organization_id]
        ELSE [kind |-> "report", organization_id |-> organization_id,
              overall_integrity |-> tampered = {},
              sequence_integrity_verified |-> TRUE,
              merkle_tree_verified |->
                  \A i \in checked : audit_logs[i].merkle_root # None,
              total_logs |-> Cardinality(logs),
              verified_logs |-> Cardinality(verified),
              tampered_logs |-> Cardinality(tampered),
              missing_logs |-> 0,
              gdpr_deleted_logs |-> Cardinality(deleted),
              failed_verifications |-> {audit_logs[i].decision_id : i \in tampered}]

IntegrityReport(organization_id) ==
    /\ integrity_report' = get_integrity_report(organization_id)
    /\ UNCHANGED <<settings, now, ingestVars, merkleVars, anchorVars, gdprVars,
                   proof_result, tombstone_result, lineage>>

\* Someone with write access to the store alters the stored full_hash of a
\* committed record.
TamperFullHash(i) ==
    /\ i \in 1..Len(audit_logs)
    /\ audit_logs[i].committed
    /\ audit_logs' = [audit_logs EXCEPT ![i].full_hash = <<0>> \o @]
    /\ Len(audit_logs[i].full_hash) < 14
    /\ UNCHANGED <<settings, now, sequence_value, commit_order, merkleVars, anchorVars,
                   gdprVars, resultVars>>

----------------------------------------------------------------------------
\* The verifier over a store that is written to behind the core's back.

InitTamper == InitStore /\ settings = SettingsOff

NextTamper ==
    \/ \E log_data \in CaptureInputs, decision_id \in DecisionIds :
          /\ decision_id <= 101 + Len(audit_logs)
          /\ Ingest(log_data, decision_id)
    \/ \E i \in 1..MaxLogs : TamperFullHash(i)
    \/ \E request \in DeletionRequests : DeletionSelect(request)
    \/ \E t \in 1..MaxDeletions : DeletionStep(t, "confirmed")
    \/ \E t \in 1..MaxDeletions : DeletionFinish(t)
    \/ IntegrityReport(51)

SpecTamper == InitTamper /\ [][NextTamper]_vars

\* The records the verifier has to check for an organization, and the
\* full_hash recomputed from the stored plaintext of one.
InScope(organization_id) ==
    {i \in 1..Len(audit_logs) :
        /\ audit_logs[i].committed
        /\ audit_logs[i].organization_id = organization_id
        /\ ~audit_logs[i].is_gdpr_deleted
        /\ audit_logs[i].interaction # None
        /\ audit_logs[i].context # None}

Recomputed(log) ==
    compute_audit_hash(log.interaction[1], log.interaction[2], log.context,
                       Metadata(log)).full_hash

\* C2 -- every integrity report lists as tampered exactly the non-deleted
\* records with payload and context whose stored full_hash differs from the
\* full_hash recomputed from the stored plaintext, by decision_id, and counts
\* every other such record as verified: an unmodified record is never
\* reported, and after altering one stored full_hash exactly that record is.
C2_TamperedExactly ==
    [][integrity_report' # integrity_report =>
          LET org == integrity_report'.organization_id
              bad == {i \in InScope(org) : audit_logs[i].full_hash # Recomputed(audit_logs[i])}
          IN  /\ integrity_report'.kind = "report"
              /\ integrity_report'.failed_verifications
                     = {audit_logs[i].decision_id : i \in bad}
              /\ integrity_report'.tampered_logs = Cardinality(bad)
              /\ integrity_report'.verified_logs = Cardinality(InScope(org) \ bad)]_vars

\* C16 -- the integrity verifier never raises: whatever the store holds,
\* get_integrity_report ends by returning a report, never with an exception.
C16_VerifierNeverRaises ==
    integrity_report.kind \in {"none", "report"}

\* The visible records of an organization, GDPR-deleted ones included.
OrgRecords(organization_id) ==
    {i \in 1..Len(audit_logs) :
        /\ audit_logs[i].committed
        /\ audit_logs[i].organization_id = organization_id}

\* C26 -- a returned integrity report counts the GDPR-deleted records of the
\* organization: gdpr_deleted_logs is the number of its deleted records,
\* total_logs the number of all its records, and total_logs minus
\* gdpr_deleted_logs the number of its non-deleted records.
C26_DeletedCounted ==
    [][(integrity_report' # integrity_report /\ integrity_report'.kind = "report") =>
          LET org == OrgRecords(integrity_report'.organization_id)
              deleted == {i \in org : audit_logs[i].is_gdpr_deleted}
          IN  /\ integrity_report'.gdpr_deleted_logs = Cardinality(deleted)
              /\ integrity_report'.total_logs = Cardinality(org)
              /\ integrity_report'.total_logs - integrity_report'.gdpr_deleted_logs
                     = Cardinality(org \ deleted)]_vars

\* The verifier next to captures whose sessions commit later or not at all,
\* and deletion requests, with the clock running.
NextSequence ==
    \/ \E log_data \in {d \in CaptureInputs : d.user_id = 61}, decision_id \in DecisionIds :
          /\ decision_id <= 101 + Len(audit_logs)
          /\ CaptureFlush(log_data, decision_id)
    \/ \E i \in 1..MaxLogs : CaptureCommit(i)
    \/ Tick
    \/ \E request \in {r \in DeletionRequests :
                          r.user_id = 61 /\ r.specific_decision_ids = None} :
          DeletionSelect(request)
    \/ \E t \in 1..MaxDeletions : DeletionStep(t, "confirmed")
    \/ \E t \in 1..MaxDeletions : DeletionFinish(t)
    \/ IntegrityReport(51)

SpecSequence == InitTamper /\ [][NextSequence]_vars

\* C27 -- a returned integrity report confirms sequence integrity only when
\* it holds: sequence_integrity_verified is true if and only if every
\* missing position in the records of the organization, ordered by
\* sequence_number, is covered by a tombstone; an unexplained gap (a position
\* between the first and the last record that holds neither a record nor a
\* record a tombstone stands for) makes it false and is counted in
\* missing_logs.
C27_SequenceChecked ==
    [][(integrity_report' # integrity_report /\ integrity_report'.kind = "report") =>
          LET org == OrgRecords(integrity_report'.organization_id)
              seqs == {audit_logs[i].sequence_number : i \in org}
              covered ==
                  {audit_logs[tombstone_records[k].original_audit_log_id].sequence_number :
                      k \in 1..Len(tombstone_records)}
              gaps == {q \in 1..MaxLogs :
                          /\ \E a \in seqs : a < q
                          /\ \E b \in seqs : b > q
                          /\ q \notin seqs
                          /\ q \notin covered}
          IN  /\ integrity_report'.sequence_integrity_verified <=> gaps = {}
              /\ gaps # {} => integrity_report'.missing_logs > 0]_vars

----------------------------------------------------------------------------
\* The core as a whole: ingests, Merkle builds over stored records, deletion
\* requests and tombstone checks over one store, without a ledger handle.

Init == InitStore /\ settings \in {c \in SettingsSet : ~c.w3 /\ ~c.anchor_private_key}

Next ==
    \/ \E log_data \in CaptureInputs, decision_id \in DecisionIds :
          /\ decision_id <= 101 + Len(audit_logs)
          /\ Ingest(log_data, decision_id)
    \/ /\ Len(merkle_roots) < MaxTrees
       /\ \E lo, hi \in 1..MaxLogs : RecordsBuild(lo, hi)
    \/ \E request \in DeletionRequests : DeletionSelect(request)
    \/ \E t \in 1..MaxDeletions, outcome \in AnchorOutcomes : DeletionStep(t, outcome)
    \/ \E t \in 1..MaxDeletions : DeletionFinish(t)
    \/ \E tid \in 1..MaxLogs : VerifyTombstone(tid)

Spec == Init /\ [][Next]_vars

\* C8 -- after a successful Merkle build every committed record whose
\* sequence_number lies in [start_sequence, end_sequence] of a stored root has
\* merkle_root equal to that root's root_hash.
C8_RangeHasMerkleRoot ==
    \A rid \in 1..Len(merkle_roots) :
        \A i \in 1..Len(audit_logs) :
            (/\ audit_logs[i].committed
             /\ audit_logs[i].sequence_number >= merkle_roots[rid].start_sequence
             /\ audit_logs[i].sequence_number <= merkle_roots[rid].end_sequence)
            => audit_logs[i].merkle_root = merkle_roots[rid].root_hash

\* A request_deletion that went through its whole loop and the flush after it.
Completed(task) == task.pc # "loop" /\ task.pos > Len(task.logs)

\* C5 -- tombstone integrity: every step of request_deletion leaves the four
\* hashes and the merkle_root of every record and every existing Merkle node
\* and root unchanged, and afterwards generate_merkle_proof followed by
\* verify_merkle_proof still succeeds for every leaf of every root that
\* existed before the step.
C5_TombstoneIntegrity ==
    [][deletion_tasks' # deletion_tasks =>
          /\ Len(audit_logs') = Len(audit_logs)
          /\ \A i \in 1..Len(audit_logs) :
                /\ audit_logs'[i].input_hash = audit_logs[i].input_hash
                /\ audit_logs'[i].output_hash = audit_logs[i].output_hash
                /\ audit_logs'[i].context_hash = audit_logs[i].context_hash
                /\ audit_logs'[i].full_hash = audit_logs[i].full_hash
                /\ audit_logs'[i].merkle_root = audit_logs[i].merkle_root
          /\ merkle_nodes \subseteq merkle_nodes'
          /\ \A rid \in 1..Len(merkle_roots) :
                /\ merkle_roots'[rid] = merkle_roots[rid]
                /\ \A n \in LeavesOf(rid) :
                      LET p == generate_merkle_proof(merkle_nodes', n.node_hash, rid)
                      IN  /\ p.kind = "proof"
                          /\ verify_merkle_proof(n.node_hash, merkle_roots'[rid].root_hash,
                                                 p.proof_path)]_vars

\* A record that is a leaf of a two-leaf root was deleted afterwards (the tree
\* of its tombstone is younger than that root), and its proof against the
\* older root still verifies.
C5_Witness ==
    \E k \in 1..Len(tombstone_records) :
        \E old, young \in 1..Len(merkle_roots) :
            LET h == tombstone_records[k].original_hash
                p == generate_merkle_proof(merkle_nodes, h, old)
            IN  /\ old < young
                /\ merkle_roots[young].root_hash = tombstone_records[k].deletion_hash
                /\ merkle_roots[old].leaf_count = 2
                /\ audit_logs[tombstone_records[k].original_audit_log_id].is_gdpr_deleted
                /\ \E t \in 1..Len(deletion_tasks) : Completed(deletion_tasks[t])
                /\ p.kind = "proof"
                /\ verify_merkle_proof(h, merkle_roots[old].root_hash, p.proof_path)

\* C6 -- after request_deletion has completed, every record it marked
\* is_gdpr_deleted has no InteractionPayload and no DecisionContext plaintext
\* left in the store, while the row and its four hashes remain.
C6_PlaintextGone ==
    \A t \in 1..Len(deletion_tasks) :
        Completed(deletion_tasks[t]) =>
            \A k \in 1..Len(deletion_tasks[t].logs) :
                LET log == audit_logs[deletion_tasks[t].logs[k]]
                IN  log.is_gdpr_deleted =>
                        /\ log.interaction = None
                        /\ log.context = None
                        /\ log.input_hash # None /\ log.output_hash # None
                        /\ log.context_hash # None /\ log.full_hash # None

\* C7 -- for every tombstone created by request_deletion and not modified
\* since, the stored deletion_hash equals the hash recomputed from the stored
\* fields, so verify_tombstone reports deletion_verified = true, both when
\* evaluated on the store and in every result it has returned.
C7_TombstoneVerifies ==
    /\ \A k \in 1..Len(tombstone_records) :
          verify_tombstone(tombstone_records[k]).deletion_verified
    /\ tombstone_result.kind = "checked" => tombstone_result.deletion_verified

\* C17 -- persisted hashes are immutable: no step of the core (captures,
\* Merkle builds, deletion requests with their tombstone anchoring, tombstone
\* checks) removes a record or changes its input_hash, output_hash,
\* context_hash or full_hash.
C17_HashesImmutable ==
    [][/\ Len(audit_logs') >= Len(audit_logs)
       /\ \A i \in 1..Len(audit_logs) :
             /\ audit_logs'[i].input_hash = audit_logs[i].input_hash
             /\ audit_logs'[i].output_hash = audit_logs[i].output_hash
             /\ audit_logs'[i].context_hash = audit_logs[i].context_hash
             /\ audit_logs'[i].full_hash = audit_logs[i].full_hash]_vars

\* A record went through a Merkle build, a deletion and a tombstone check,
\* another record was captured, and the deleted record still carries the
\* hashes computed from its plaintext.
C17_Witness ==
    \E i, j \in 1..Len(audit_logs) :
        /\ i # j
        /\ audit_logs[i].is_gdpr_deleted
        /\ ~audit_logs[j].is_gdpr_deleted
        /\ \E rid \in 1..Len(merkle_roots) :
              \E n \in LeavesOf(rid) : n.node_hash = audit_logs[i].full_hash
        /\ tombstone_result.kind = "checked"
        /\ audit_logs[i].full_hash = Recomputed(audit_logs[i])
        /\ audit_logs[i].input_hash = hash_string(audit_logs[i].interaction[1])

----------------------------------------------------------------------------
\* Deletion requests with date ranges over the records of one user, captured
\* at different times.

InitDeletion == InitStore /\ settings = SettingsOff

NextDeletion ==
    \/ \E log_data \in {d \in CaptureInputs : d.user_id = 61}, decision_id \in DecisionIds :
          /\ decision_id <= 101 + Len(audit_logs)
          /\ Ingest(log_data, decision_id)
    \/ Tick
    \/ \E request \in DatedDeletionRequests : DeletionSelect(request)
    \/ \E t \in 1..MaxDeletions : DeletionStep(t, "confirmed")
    \/ \E t \in 1..MaxDeletions : DeletionFinish(t)

SpecDeletion == InitDeletion /\ [][NextDeletion]_vars

\* C18 -- request_deletion selects exactly the committed records that are
\* not yet deleted, belong to the request's user and organization and pass
\* the specific_decision_ids and date-range filters; once it has completed it
\* has returned a response, it has created exactly one tombstone per selected
\* record (original_hash = full_hash, original_decision_id = decision_id) and
\* marked the record deleted with gdpr_deleted_at set, the number of tombstone
\* ids equals the number of affected decisions, and no step of it changes a
\* record other than the one it is processing.
C18_DeletionEffects ==
    [][/\ Len(deletion_tasks') > Len(deletion_tasks) =>
             LET task == deletion_tasks'[Len(deletion_tasks')]
                 req == task.request
                 sel == {i \in 1..Len(audit_logs) :
                            /\ audit_logs[i].committed
                            /\ ~audit_logs[i].is_gdpr_deleted
                            /\ audit_logs[i].user_id = req.user_id
                            /\ audit_logs[i].organization_id = req.organization_id
                            /\ \/ req.specific_decision_ids = None
                               \/ \E k \in 1..Len(req.specific_decision_ids) :
                                     req.specific_decision_ids[k] = audit_logs[i].decision_id
                            /\ \/ req.date_range_start = None
                               \/ audit_logs[i].created_at >= req.date_range_start[1]
                            /\ \/ req.date_range_end = None
                               \/ audit_logs[i].created_at <= req.date_range_end[1]}
             IN  /\ {task.logs[k] : k \in 1..Len(task.logs)} = sel
                 /\ Len(task.logs) = Cardinality(sel)
       /\ \A t \in 1..Len(deletion_tasks') :
             LET task == deletion_tasks'[t]
             IN  Completed(task) =>
                    /\ task.pc = "returned"
                    /\ Len(task.tombstone_ids) = Len(task.logs)
                    /\ \A k \in 1..Len(task.logs) :
                          LET log == audit_logs'[task.logs[k]]
                              ts == {j \in 1..Len(task.tombstone_ids) :
                                        tombstone_records'[task.tombstone_ids[j]]
                                            .original_audit_log_id = task.logs[k]}
                          IN  /\ Cardinality(ts) = 1
                              /\ \A j \in ts :
                                    LET tomb == tombstone_records'[task.tombstone_ids[j]]
                                    IN  /\ tomb.original_hash = log.full_hash
                                        /\ tomb.original_decision_id = log.decision_id
                              /\ log.is_gdpr_deleted
                              /\ log.gdpr_deleted_at # 0
       /\ \A i \in 1..Len(audit_logs) :
             audit_logs'[i] # audit_logs[i] =>
                 \E t \in 1..Len(deletion_tasks) :
                     /\ deletion_tasks[t].pc = "loop"
                     /\ deletion_tasks[t].pos <= Len(deletion_tasks[t].logs)
                     /\ deletion_tasks[t].logs[deletion_tasks[t].pos] = i]_vars

\* request_deletion with the ledger enabled, in every configuration of the
\* ledger handle and key and with every outcome of the ledger.
InitGdprLedger == InitStore /\ settings \in {c \in SettingsSet : c.blockchain_enabled}

NextGdprLedger ==
    \/ \E log_data \in {d \in CaptureInputs : d.user_id = 61}, decision_id \in DecisionIds :
          /\ decision_id <= 101 + Len(audit_logs)
          /\ Ingest(log_data, decision_id)
    \/ \E request \in {r \in DeletionRequests : r.user_id = 61} : DeletionSelect(request)
    \/ \E t \in 1..MaxDeletions, outcome \in AnchorOutcomes : DeletionStep(t, outcome)
    \/ \E t \in 1..MaxDeletions : DeletionFinish(t)

SpecGdprLedger == InitGdprLedger /\ [][NextGdprLedger]_vars

\* C24 -- in request_deletion with the ledger enabled a tombstone has
\* deletion_anchor_tx_hash set and deletion_verified = true if and only if
\* the single-leaf tree over its deletion_hash was anchored successfully;
\* whether or not the anchoring failed, the record is marked is_gdpr_deleted,
\* the tombstone persists, every selected record is processed, and the call
\* completes without error.
C24_AnchorFailureTolerated ==
    \A t \in 1..Len(deletion_tasks) :
        LET task == deletion_tasks[t]
        IN  /\ \A k \in 1..Len(task.tombstone_ids) :
                  LET tombstone == tombstone_records[task.tombstone_ids[k]]
                      anchored ==
                          \E rid \in 1..Len(merkle_roots) :
                              /\ merkle_roots[rid].root_hash = tombstone.deletion_hash
                              /\ merkle_roots[rid].leaf_count = 1
                              /\ merkle_roots[rid].is_anchored
                              /\ Settled(blockchain_anchors[merkle_roots[rid].blockchain_anchor_id])
                  IN  /\ (tombstone.deletion_verified /\ tombstone.deletion_anchor_tx_hash # 0)
                             <=> anchored
                      /\ tombstone.deletion_verified <=> tombstone.deletion_anchor_tx_hash # 0
                      /\ tombstone.original_audit_log_id = task.logs[k]
                      /\ audit_logs[task.logs[k]].is_gdpr_deleted
            /\ (task.logs # <<>> /\ Completed(task)) =>
                  /\ task.pc = "returned"
                  /\ Len(task.tombstone_ids) = Len(task.logs)

\* Deletion requests of one user with and without a retention override,
\* zero included.
RetentionRequests ==
    [user_id : {61}, organization_id : {51}, requested_by : {91}, reason : {95},
     specific_decision_ids : {None}, date_range_start : {None},
     date_range_end : {None}, retention_override_days : {None, <<0>>, <<7>>}]

InitRetention == InitStore /\ settings = SettingsOff

NextRetention ==
    \/ \E log_data \in {d \in CaptureInputs : d.user_id = 61}, decision_id \in DecisionIds :
          /\ decision_id <= 101 + Len(audit_logs)
          /\ Ingest(log_data, decision_id)
    \/ Tick
    \/ \E request \in RetentionRequests : DeletionSelect(request)
    \/ \E t \in 1..MaxDeletions : DeletionStep(t, "confirmed")
    \/ \E t \in 1..MaxDeletions : DeletionFinish(t)

SpecRetention == InitRetention /\ [][NextRetention]_vars

\* C25 -- every tombstone created by a request_deletion call has
\* permanent_retention_until = now + retention_days, now being the time of
\* the call and retention_days the request's retention_override_days whenever
\* one is supplied (0 included) and gdpr_deletion_retention_days otherwise;
\* a response that is returned carries that same date.
C25_RetentionDate ==
    [][/\ Len(deletion_tasks') > Len(deletion_tasks) =>
             LET task == deletion_tasks'[Len(deletion_tasks')]
                 days == IF task.request.retention_override_days # None
                         THEN task.request.retention_override_days[1]
                         ELSE GdprDeletionRetentionDays
             IN  task.logs # <<>> => task.retention_until = now + days
       /\ \A tid \in (Len(tombstone_records) + 1)..Len(tombstone_records') :
             \E t \in 1..Len(deletion_tasks') :
                 /\ \E k \in 1..Len(deletion_tasks'[t].tombstone_ids) :
                       deletion_tasks'[t].tombstone_ids[k] = tid
                 /\ tombstone_records'[tid].permanent_retention_until =
                        deletion_tasks'[t].retention_until
       /\ \A t \in 1..Len(deletion_tasks) :
             deletion_tasks'[t].retention_until = deletion_tasks[t].retention_until]_vars

\* Deletion requests of one user whose steps interleave at the flushes of
\* _create_tombstone, with the clock running.
NextOverlap ==
    \/ \E log_data \in {d \in CaptureInputs : d.user_id = 61}, decision_id \in DecisionIds :
          /\ decision_id = 101 + Len(audit_logs)
          /\ Ingest(log_data, decision_id)
    \/ Tick
    \/ \E request \in {r \in DeletionRequests :
                          r.user_id = 61 /\ r.specific_decision_ids = None} :
          /\ Len(deletion_tasks) < MaxOverlap
          /\ DeletionCall(request)
    \/ \E t \in 1..MaxOverlap : DeletionStep(t, "confirmed")
    \/ \E t \in 1..MaxOverlap : DeletionFinish(t)

SpecOverlap == InitDeletion /\ [][NextOverlap]_vars

\* C29 -- after any sequence of request_deletion calls, calls with
\* overlapping scope whose steps interleave included, every record has at
\* most one tombstone; a request over records that are all deleted already
\* creates no tombstone and returns a response with affected_decisions = 0.
C29_OneTombstonePerRecord ==
    /\ \A i \in 1..Len(audit_logs) :
          Cardinality({k \in 1..Len(tombstone_records) :
                          tombstone_records[k].original_audit_log_id = i}) <= 1
    /\ \A t \in 1..Len(deletion_tasks) :
          LET task == deletion_tasks[t]
          IN  (/\ task.logs = <<>>
               /\ \E i \in 1..Len(audit_logs) :
                     /\ audit_logs[i].is_gdpr_deleted
                     /\ audit_logs[i].user_id = task.request.user_id)
                 => /\ task.tombstone_ids = <<>>
                    /\ task.pc = "returned"

----------------------------------------------------------------------------
\* Decision lineage.

\* LogCaptureService.get_log_by_decision_id: the rows with that decision_id
\* that are not GDPR-deleted (decision_id is unique, so at most one).
get_log_by_decision_id(decision_id) ==
    {i \in 1..Len(audit_logs) :
        /\ audit_logs[i].committed
        /\ audit_logs[i].decision_id = decision_id
        /\ ~audit_logs[i].is_gdpr_deleted}

\* The related_decisions a caller stores with a record: none, the first
\* record, the second twice, the second and third, and a decision_id no
\* record has (100) followed by the first record.
RelatedLists ==
    {<<>>, <<101>>, <<102, 102>>, <<102, 103>>, <<100, 101>>}

LineageInputs ==
    [organization_id : {51}, user_id : {61}, model_name : {71}, decision_type : {81},
     prompt : {21}, response : {31}, context : {<<41>>}, related_decisions : RelatedLists]

\* get_decision_lineage up to the loop: the root is looked up; without it
\* the empty lineage is returned.
LineageCall(decision_id) ==
    /\ lineage.pc # "loop"
    /\ LET root == get_log_by_decision_id(decision_id)
       IN  lineage' =
               IF root = {}
               THEN [pc |-> "returned", root_decision_id |-> decision_id, queue |-> <<>>,
                     visited |-> {}, nodes |-> <<>>, total_nodes |-> 0]
               ELSE [pc |-> "loop", root_decision_id |-> decision_id,
                     queue |-> <<CHOOSE i \in root : TRUE>>,
                     visited |-> {}, nodes |-> <<>>, total_nodes |-> 0]
    /\ UNCHANGED <<settings, now, ingestVars, merkleVars, anchorVars, gdprVars,
                   proof_result, tombstone_result, integrity_report>>

\* The test at the head of the loop body.  The Never variant visits a
\* decision again.
SeenNever(task, decision_id) == FALSE

Seen(task, decision_id) == decision_id \in task.visited

\* One pass of the while loop of get_decision_lineage; when the queue is
\* empty afterwards the lineage is returned.
LineageStep ==
    /\ lineage.pc = "loop"
    /\ LET current == audit_logs[Head(lineage.queue)]
           rest == Tail(lineage.queue)
           visited == lineage.visited \cup {current.decision_id}
           found == SelectSeq(current.related_decisions,
                              LAMBDA d : d \notin visited /\ get_log_by_decision_id(d) # {})
           children == [k \in 1..Len(found) |->
                           CHOOSE i \in get_log_by_decision_id(found[k]) : TRUE]
           queue == IF Seen(lineage, current.decision_id) THEN rest ELSE rest \o children
           nodes == IF Seen(lineage, current.decision_id) THEN lineage.nodes
                    ELSE Append(lineage.nodes, current.decision_id)
       IN  lineage' =
               [pc |-> IF queue = <<>> THEN "returned" ELSE "loop",
                root_decision_id |-> lineage.root_decision_id,
                queue |-> queue,
                visited |-> IF Seen(lineage, current.decision_id)
                            THEN lineage.visited ELSE visited,
                nodes |-> nodes,
                total_nodes |-> IF queue = <<>> THEN Len(nodes) ELSE 0]
    /\ UNCHANGED <<settings, now, ingestVars, merkleVars, anchorVars, gdprVars,
                   proof_result, tombstone_result, integrity_report>>

\* Lineage requests over stores with every combination of references: the
\* records are captured, then one of them is deleted, then lineage calls run
\* on the store as it is.
NextLineage ==
    \/ \E log_data \in LineageInputs, decision_id \in DecisionIds :
          /\ lineage.pc = "none"
          /\ deletion_tasks = <<>>
          /\ decision_id = 101 + Len(audit_logs)
          /\ Ingest(log_data, decision_id)
    \/ \E request \in {r \in DeletionRequests :
                          r.user_id = 61 /\ r.specific_decision_ids # None} :
          /\ lineage.pc = "none"
          /\ DeletionSelect(request)
    \/ \E t \in 1..MaxDeletions :
          /\ lineage.pc = "none"
          /\ DeletionStep(t, "confirmed")
    \/ \E t \in 1..MaxDeletions :
          /\ lineage.pc = "none"
          /\ DeletionFinish(t)
    \/ \E decision_id \in DecisionIds \cup {100} : LineageCall(decision_id)
    \/ LineageStep

\* The event loop resumes a lineage call that can go on.
SpecLineage == InitDeletion /\ [][NextLineage]_vars /\ WF_vars(LineageStep)

\* The decisions reachable from a set of decisions through related_decisions
\* of non-deleted records, in at most k more steps.
RECURSIVE Reach(_, _)
Reach(S, k) ==
    IF k = 0 THEN S
    ELSE Reach(S \cup {d \in DecisionIds :
                          /\ get_log_by_decision_id(d) # {}
                          /\ \E i \in 1..Len(audit_logs) :
                                /\ audit_logs[i].decision_id \in S
                                /\ get_log_by_decision_id(audit_logs[i].decision_id) = {i}
                                /\ \E j \in 1..Len(audit_logs[i].related_decisions) :
                                      audit_logs[i].related_decisions[j] = d},
               k - 1)

\* C30 -- get_decision_lineage terminates for every store content, cycles,
\* references to the root, to missing and to GDPR-deleted decisions
\* included; the returned nodes contain each decision_id at most once,
\* contain only non-deleted records reachable from the root through
\* related_decisions, and total_nodes is the number of nodes (all of it
\* judged against the store the call ran on, at the step that returns).
C30_LineageTerminates ==
    /\ [](lineage.pc = "loop" => <>(lineage.pc = "returned"))
    /\ [][(lineage' # lineage /\ lineage'.pc = "returned") =>
             /\ \A a, b \in 1..Len(lineage'.nodes) :
                   lineage'.nodes[a] = lineage'.nodes[b] => a = b
             /\ \A a \in 1..Len(lineage'.nodes) :
                   /\ get_log_by_decision_id(lineage'.nodes[a]) # {}
                   /\ lineage'.nodes[a] \in Reach({lineage'.root_decision_id}, MaxLogs)
             /\ lineage'.total_nodes = Len(lineage'.nodes)]_vars

\* A lineage was returned for a root on a cycle (the root refers to a record
\* that refers back to the root) next to a GDPR-deleted record: it has more
\* than one node.
C30_Witness ==
    /\ lineage.pc = "returned"
    /\ Len(lineage.nodes) >= 2
    /\ \E i, j \in 1..Len(audit_logs) :
          /\ audit_logs[i].decision_id = lineage.root_decision_id
          /\ audit_logs[j].decision_id = lineage.nodes[2]
          /\ \E k \in 1..Len(audit_logs[j].related_decisions) :
                audit_logs[j].related_decisions[k] = lineage.root_decision_id
          /\ i # j
    /\ \E i \in 1..Len(audit_logs) : audit_logs[i].is_gdpr_deleted

====
